---- MODULE Spec2Model ----
(***************************************************************************)
(* A model of grunge, a coherent noise generation library.                 *)
(*                                                                         *)
(* A noise module is either a generator (PinkNoise, BillowNoise,           *)
(* ConstNoise, CheckerboardNoise, CylinderNoise, FunctionNoise) or a       *)
(* modifier (ClampedNoise, ScaledBiasedNoise, TranslatedNoise,             *)
(* RotatedNoise, ModifierNoise) that owns a boxed clone of its source.     *)
(* A module is a record; a modifier's `source` field holds the record of   *)
(* the module it owns.                                                     *)
(*                                                                         *)
(* f32 values are fixed-point numbers in units of 1/One, plus NaN.         *)
(***************************************************************************)
EXTENDS Integers, Sequences, FiniteSets, TLC

VARIABLES mods, call, result, log, failed

vars == <<mods, call, result, log, failed>>

(***************************************************************************)
(* f32 arithmetic, in fixed point.                                         *)
(***************************************************************************)
One == 1000

Half == One \div 2

NaN == 0 - (One * One)

IsNaN(a) == a = NaN

Abs(a) == IF a < 0 THEN 0 - a ELSE a

Sign(a) == IF a < 0 THEN 0 - 1 ELSE 1

\* Integer quotient rounded toward zero.
TruncDiv(a, b) == Sign(a) * (Abs(a) \div b)

Fadd(a, b) == IF IsNaN(a) \/ IsNaN(b) THEN NaN ELSE a + b

Fsub(a, b) == IF IsNaN(a) \/ IsNaN(b) THEN NaN ELSE a - b

\* The product a*b/One rounded toward zero, computed on the whole and the
\* fractional part of a separately.
MulDiv(a, b) ==
    Sign(a) * Sign(b) *
        ((Abs(a) \div One) * Abs(b) + ((Abs(a) % One) * Abs(b)) \div One)

Fmul(a, b) == IF IsNaN(a) \/ IsNaN(b) THEN NaN ELSE MulDiv(a, b)

\* The comparison operators of f32: every comparison with NaN is false.
Fgt(a, b) == ~IsNaN(a) /\ ~IsNaN(b) /\ a > b

Flt(a, b) == ~IsNaN(a) /\ ~IsNaN(b) /\ a < b

Fle(a, b) == ~IsNaN(a) /\ ~IsNaN(b) /\ a <= b

\* f32::min and f32::max return the other operand when one is NaN.
Fmin(a, b) == IF IsNaN(a) THEN b ELSE IF IsNaN(b) THEN a ELSE IF a < b THEN a ELSE b

Fmax(a, b) == IF IsNaN(a) THEN b ELSE IF IsNaN(b) THEN a ELSE IF a > b THEN a ELSE b

Ftrunc(a) == IF IsNaN(a) THEN NaN ELSE TruncDiv(a, One) * One

\* f32::fract keeps the sign of its argument.
Ffract(a) == IF IsNaN(a) THEN NaN ELSE a - Ftrunc(a)

Fabs(a) == IF IsNaN(a) THEN NaN ELSE Abs(a)

\* `x as int`: the integer part, rounded toward zero (NaN casts to 0).
AsInt(a) == IF IsNaN(a) THEN 0 ELSE TruncDiv(a, One)

\* `n & 1` on a two's complement integer.
BitAnd1(n) == n % 2

\* `a ^ b` on two single bits.
BitXor1(a, b) == (a + b) % 2

RECURSIVE SqrtIter(_, _, _)
SqrtIter(n, lo, hi) ==
    IF lo >= hi THEN lo
    ELSE LET mid == (lo + hi + 1) \div 2
         IN  IF mid * mid <= n THEN SqrtIter(n, mid, hi)
             ELSE SqrtIter(n, lo, mid - 1)

\* f32::sqrt of a value given in units of 1/(One*One), in units of 1/One.
Fsqrt(n) == SqrtIter(n, 0, 46340)

(***************************************************************************)
(* Vector2<f32>                                                            *)
(***************************************************************************)
Vector2(x, y) == [x |-> x, y |-> y]

VAdd(a, b) == Vector2(Fadd(a.x, b.x), Fadd(a.y, b.y))

VSub(a, b) == Vector2(Fsub(a.x, b.x), Fsub(a.y, b.y))

mul_s(a, s) == Vector2(Fmul(a.x, s), Fmul(a.y, s))

dot(a, b) == Fadd(Fmul(a.x, b.x), Fmul(a.y, b.y))

length(a) ==
    IF IsNaN(a.x) \/ IsNaN(a.y) THEN NaN ELSE Fsqrt(a.x * a.x + a.y * a.y)

(***************************************************************************)
(* Result<f32, &str>                                                       *)
(***************************************************************************)
Ok(v) == [ok |-> TRUE, val |-> v, err |-> "none"]

Err(e) == [ok |-> FALSE, val |-> 0, err |-> e]

(***************************************************************************)
(* primitives.rs: simplex noise                                            *)
(***************************************************************************)
HAIRY_2D == 366

SKEW_2D == 211

\* McEwanPermutable::permutation_hash on one component: ((t*34 + 1) * t) %
\* 289.  Every argument snoise_2d passes is a whole number n (here not
\* scaled by One), for which the polynomial is never negative.
permutation_hash(n) == ((n * 34 + 1) * n) % 289

\* The product of two numbers of snoise_2d, which are never NaN.
Mul(a, b) == (a * b) \div One

\* 2.0 * (p * 0.024390243902439).fract() - 1.0, where the factor is 1/41
\* and p is the whole number a permutation_hash returns.
GradientH1(p) == 2 * (((p % 41) * One) \div 41) - One

\* One corner of the simplex: falloff m, gradient (h4, h2) and offset x.
CornerTerm(x, p) ==
    LET d0 == Half - (Mul(x.x, x.x) + Mul(x.y, x.y))
        d  == IF d0 > 0 THEN d0 ELSE 0
        m  == Mul(Mul(d, d), d)
        h1 == GradientH1(p)
        h2 == Abs(h1) - Half
        h3 == ((h1 + Half) \div One) * One
        h4 == h1 - h3
        mn == Mul(m, 1793 - Mul(854, Mul(h4, h4) + Mul(h2, h2)))
        g  == Mul(h4, x.x) + Mul(h2, x.y)
    IN  IF m = 0 THEN 0 ELSE Mul(mn, g)

snoise_2d(v, seed) ==
    IF IsNaN(v.x) \/ IsNaN(v.y) THEN NaN
    ELSE
    LET s   == MulDiv(v.x + v.y, HAIRY_2D)
        ix  == (v.x + s) \div One
        iy  == (v.y + s) \div One
        t   == (ix + iy) * SKEW_2D
        x0  == Vector2(v.x - ix * One + t, v.y - iy * One + t)
        i1  == IF x0.x > x0.y THEN Vector2(1, 0) ELSE Vector2(0, 1)
        x1  == Vector2(x0.x - i1.x * One + SKEW_2D, x0.y - i1.y * One + SKEW_2D)
        x2  == Vector2(x0.x - One + 2 * SKEW_2D, x0.y - One + 2 * SKEW_2D)
        p0  == permutation_hash(
                   permutation_hash(permutation_hash(iy) + ix) + seed)
        p1  == permutation_hash(
                   permutation_hash(permutation_hash(iy + i1.y) + ix + i1.x)
                   + seed)
        p2  == permutation_hash(
                   permutation_hash(permutation_hash(iy + 1) + ix + 1) + seed)
    IN  130 * (CornerTerm(x0, p0) + CornerTerm(x1, p1) + CornerTerm(x2, p2))

(***************************************************************************)
(* geometry.rs: the generators with closed forms                           *)
(***************************************************************************)
ConstNoise_new(value) == [kind |-> "ConstNoise", value |-> value]

\* A constant that drifts with x.
ConstNoise_generate_2d_AddX(self, v) == Ok(Fadd(self.value, v.x))

ConstNoise_generate_2d(self, v) == Ok(self.value)

CheckerboardNoise_new == [kind |-> "CheckerboardNoise"]

CheckerboardNoise_generate_2d(self, v) ==
    IF BitXor1(BitAnd1(AsInt(v.x)), BitAnd1(AsInt(v.y))) # 0
    THEN Ok(0 - One) ELSE Ok(One)

CylinderNoise_new(frequency) == [kind |-> "CylinderNoise", frequency |-> frequency]

\* The triangle wave taken with max for min.
CylinderNoise_generate_2d_Max(self, v) ==
    LET fract == Ffract(length(mul_s(v, self.frequency)))
    IN  Ok(Fsub(One, Fmul(Fmax(fract, Fsub(One, fract)), 4 * One)))

CylinderNoise_generate_2d(self, v) ==
    LET fract == Ffract(length(mul_s(v, self.frequency)))
    IN  Ok(Fsub(One, Fmul(Fmin(fract, Fsub(One, fract)), 4 * One)))

\* The functions a caller passes as FunctionNoiseFunction: each is a pure
\* fn(x, y) -> Result<f32, &str>.
FunctionNoiseFunctions == {"sum", "positive_x"}

CallFunctionNoiseFunction(func, x, y) ==
    CASE func = "sum"        -> Ok(Fadd(x, y))
      [] func = "positive_x" -> IF Fgt(x, 0) THEN Ok(x) ELSE Err("x must be positive")

FunctionNoise_new(func) == [kind |-> "FunctionNoise", func |-> func]

\* The immutable path of a FunctionNoise that can only call its function
\* through mutable access.
FunctionNoise_generate_2d_Unsupported(self, v) ==
    Err("unsupported evaluation mode")

FunctionNoise_generate_2d(self, v) == CallFunctionNoiseFunction(self.func, v.x, v.y)

(***************************************************************************)
(* fractal.rs: PinkNoise and BillowNoise.  Each octave k adds              *)
(* persistence^k * snoise_2d(v * frequency * lacunarity^k, seed + k), and  *)
(* the sum is divided by the sum of the amplitudes.                        *)
(***************************************************************************)
MinOctaves == 2

MaxOctaves == 30

DefaultOctaves == 6

PinkNoise_new(seed) ==
    [kind |-> "PinkNoise", seed |-> seed, frequency |-> One,
     persistence |-> Half, lacunarity |-> 2 * One, octaves |-> DefaultOctaves]

BillowNoise_new(seed) ==
    [kind |-> "BillowNoise", seed |-> seed, frequency |-> One,
     persistence |-> Half, lacunarity |-> 2 * One, octaves |-> DefaultOctaves]

\* The value one octave contributes before weighting.
OctaveSignal(self, value) ==
    IF self.kind = "BillowNoise" THEN Fsub(2 * Fabs(value), One) ELSE value

\* The octaves k, k+1, ... of the sum.  Once the amplitude has underflowed
\* to zero it stays zero, and no later octave adds to either sum.
RECURSIVE OctaveSum(_, _, _, _, _)
OctaveSum(self, v, k, freq, amp) ==
    IF k >= self.octaves \/ amp = 0 THEN [sum |-> 0, amps |-> 0]
    ELSE LET signal == Fmul(amp, OctaveSignal(self,
                            snoise_2d(mul_s(v, freq), self.seed + k)))
             rest   == OctaveSum(self, v, k + 1, Fmul(freq, self.lacunarity),
                                 Fmul(amp, self.persistence))
         IN  [sum |-> Fadd(signal, rest.sum), amps |-> amp + rest.amps]

\* A check that lets an octave count of 1 through.
OctaveCountValid_FromOne(octaves) == octaves >= 1 /\ octaves <= MaxOctaves

OctaveCountValid(octaves) == octaves >= MinOctaves /\ octaves <= MaxOctaves

\* A generator that validates the octave count it was constructed with,
\* once, and not the count it has when it is evaluated.
Fractal_generate_2d_CheckedAtConstruction(self, v) ==
    IF ~OctaveCountValid(DefaultOctaves) THEN Err("InvalidOctaveCount")
    ELSE LET total == OctaveSum(self, v, 0, self.frequency, One)
         IN  Ok(IF IsNaN(total.sum) THEN NaN
                ELSE TruncDiv(total.sum * One, total.amps))

Fractal_generate_2d(self, v) ==
    IF ~OctaveCountValid(self.octaves) THEN Err("InvalidOctaveCount")
    ELSE LET total == OctaveSum(self, v, 0, self.frequency, One)
         IN  Ok(IF IsNaN(total.sum) THEN NaN
                ELSE TruncDiv(total.sum * One, total.amps))

(***************************************************************************)
(* modifiers.rs                                                            *)
(***************************************************************************)
RECURSIVE generate_2d(_, _)

\* NoiseModule::to_box: a boxed clone of the module.
to_box(self) == self

\* A clamp() that takes its two bounds for each other.
clamp_Swapped(self, min, max) ==
    [kind |-> "ClampedNoise", source |-> to_box(self), min |-> max, max |-> min]

clamp(self, min, max) ==
    [kind |-> "ClampedNoise", source |-> to_box(self), min |-> min, max |-> max]

scalebias(self, scale, bias) ==
    [kind |-> "ScaledBiasedNoise", source |-> to_box(self),
     scale |-> scale, bias |-> bias]

translate(self, translation) ==
    [kind |-> "TranslatedNoise", source |-> to_box(self),
     translation |-> translation]

\* Rotation2::from_angle(rad(rotation)): the cosine and sine of the angle,
\* for the angles 0, pi/2 and pi (in units of 1/One radian).
from_angle(rotation) ==
    CASE rotation = 0    -> [cos |-> One, sin |-> 0]
      [] rotation = 1571 -> [cos |-> 0, sin |-> One]
      [] rotation = 3142 -> [cos |-> 0 - One, sin |-> 0]

\* Basis2::rotate_vector
rotate_vector(rotation, v) ==
    Vector2(Fsub(Fmul(rotation.cos, v.x), Fmul(rotation.sin, v.y)),
            Fadd(Fmul(rotation.sin, v.x), Fmul(rotation.cos, v.y)))

rotate(self, rotation) ==
    [kind |-> "RotatedNoise", source |-> to_box(self),
     rotation |-> from_angle(rotation)]

\* The struct literal ClampedNoise { source: boxed, min: min, max: max }.
ClampedNoise(boxed, min, max) ==
    [kind |-> "ClampedNoise", source |-> boxed, min |-> min, max |-> max]

ClampedNoise_new(source) ==
    [kind |-> "ClampedNoise", source |-> to_box(source),
     min |-> 0 - One, max |-> One]

\* A clamp that answers a failed source with its lower bound.
ClampedNoise_generate_2d_MaskError(self, v) ==
    LET r == generate_2d(self.source, v)
    IN  IF r.ok
        THEN IF Fgt(r.val, self.max) THEN Ok(self.max)
             ELSE IF Flt(r.val, self.min) THEN Ok(self.min)
             ELSE Ok(r.val)
        ELSE Ok(self.min)

\* A clamp that bounds from above only.
ClampedNoise_generate_2d_NoLower(self, v) ==
    LET r == generate_2d(self.source, v)
    IN  IF r.ok
        THEN IF Fgt(r.val, self.max) THEN Ok(self.max) ELSE Ok(r.val)
        ELSE r

\* A clamp that wraps a value above max around instead of saturating.
ClampedNoise_generate_2d_Wrap(self, v) ==
    LET r == generate_2d(self.source, v)
    IN  IF r.ok
        THEN IF Fgt(r.val, self.max) THEN Ok(Fsub(r.val, self.max))
             ELSE IF Flt(r.val, self.min) THEN Ok(self.min)
             ELSE Ok(r.val)
        ELSE r

ClampedNoise_generate_2d(self, v) ==
    LET r == generate_2d(self.source, v)
    IN  IF r.ok
        THEN IF Fgt(r.val, self.max) THEN Ok(self.max)
             ELSE IF Flt(r.val, self.min) THEN Ok(self.min)
             ELSE Ok(r.val)
        ELSE r

ScaledBiasedNoise_new(source) ==
    [kind |-> "ScaledBiasedNoise", source |-> to_box(source),
     scale |-> One, bias |-> 0]

\* Scale and bias taken for each other.
ScaledBiasedNoise_generate_2d_Swapped(self, v) ==
    LET r == generate_2d(self.source, v)
    IN  IF r.ok THEN Ok(Fadd(Fmul(r.val, self.bias), self.scale)) ELSE r

ScaledBiasedNoise_generate_2d(self, v) ==
    LET r == generate_2d(self.source, v)
    IN  IF r.ok THEN Ok(Fadd(Fmul(r.val, self.scale), self.bias)) ELSE r

\* A translation subtracted from the coordinate.
TranslatedNoise_generate_2d_Subtract(self, v) ==
    generate_2d(self.source, VSub(v, self.translation))

TranslatedNoise_generate_2d(self, v) ==
    generate_2d(self.source, VAdd(v, self.translation))

RotatedNoise_generate_2d(self, v) ==
    generate_2d(self.source, rotate_vector(self.rotation, v))

\* The functions a caller passes as ModifierNoiseFunction: each is a pure
\* fn(x, y, out) -> Result<f32, &str>.
ModifierNoiseFunctions == {"add_x"}

CallModifierNoiseFunction(func, x, y, out) ==
    CASE func = "add_x" ->
        IF Flt(out, 0) THEN Err("negative output") ELSE Ok(Fadd(out, x))

ModifierNoise_new(source, func) ==
    [kind |-> "ModifierNoise", source |-> to_box(source), func |-> func]

\* A ModifierNoise that calls its function on a failed source too, with 0.0
\* for the missing value.
ModifierNoise_generate_2d_CallOnError(self, v) ==
    LET r == generate_2d(self.source, v)
    IN  CallModifierNoiseFunction(self.func, v.x, v.y, IF r.ok THEN r.val ELSE 0)

ModifierNoise_generate_2d(self, v) ==
    LET r == generate_2d(self.source, v)
    IN  IF r.ok THEN CallModifierNoiseFunction(self.func, v.x, v.y, r.val) ELSE r

\* NoiseModule::generate_2d, dispatched on the concrete type behind the box.
generate_2d(self, v) ==
    CASE self.kind = "PinkNoise"         -> Fractal_generate_2d(self, v)
      [] self.kind = "BillowNoise"       -> Fractal_generate_2d(self, v)
      [] self.kind = "ConstNoise"        -> ConstNoise_generate_2d(self, v)
      [] self.kind = "CheckerboardNoise" -> CheckerboardNoise_generate_2d(self, v)
      [] self.kind = "CylinderNoise"     -> CylinderNoise_generate_2d(self, v)
      [] self.kind = "FunctionNoise"     -> FunctionNoise_generate_2d(self, v)
      [] self.kind = "ClampedNoise"      -> ClampedNoise_generate_2d(self, v)
      [] self.kind = "ScaledBiasedNoise" -> ScaledBiasedNoise_generate_2d(self, v)
      [] self.kind = "TranslatedNoise"   -> TranslatedNoise_generate_2d(self, v)
      [] self.kind = "RotatedNoise"      -> RotatedNoise_generate_2d(self, v)
      [] self.kind = "ModifierNoise"     -> ModifierNoise_generate_2d(self, v)

\* The calls an evaluation makes to the functions the caller supplied, in
\* order: FunctionNoise calls its function with the coordinate, ModifierNoise
\* calls its function with the coordinate and its source's value, inside the
\* Ok arm only; the other modules hand the evaluation to their source.
RECURSIVE FunctionCalls(_, _)

FunctionNoise_calls(self, v) == <<[func |-> self.func, args |-> <<v.x, v.y>>]>>

ModifierNoise_calls(self, v) ==
    LET r == generate_2d(self.source, v)
    IN  FunctionCalls(self.source, v)
            \o (IF r.ok THEN <<[func |-> self.func, args |-> <<v.x, v.y, r.val>>]>>
                ELSE <<>>)

FunctionCalls(self, v) ==
    CASE self.kind = "FunctionNoise"     -> FunctionNoise_calls(self, v)
      [] self.kind = "ModifierNoise"     -> ModifierNoise_calls(self, v)
      [] self.kind = "ClampedNoise"      -> FunctionCalls(self.source, v)
      [] self.kind = "ScaledBiasedNoise" -> FunctionCalls(self.source, v)
      [] self.kind = "TranslatedNoise"   ->
             FunctionCalls(self.source, VAdd(v, self.translation))
      [] self.kind = "RotatedNoise"      ->
             FunctionCalls(self.source, rotate_vector(self.rotation, v))
      [] OTHER                           -> <<>>

\* Clone for the modifiers: the source box is cloned with to_box(), the
\* other fields are copied.
clone(self) ==
    CASE self.kind = "ClampedNoise" ->
             [kind |-> "ClampedNoise", source |-> to_box(self.source),
              min |-> self.min, max |-> self.max]
      [] self.kind = "ScaledBiasedNoise" ->
             [kind |-> "ScaledBiasedNoise", source |-> to_box(self.source),
              scale |-> self.scale, bias |-> self.bias]
      [] self.kind = "TranslatedNoise" ->
             [kind |-> "TranslatedNoise", source |-> to_box(self.source),
              translation |-> self.translation]
      [] self.kind = "RotatedNoise" ->
             [kind |-> "RotatedNoise", source |-> to_box(self.source),
              rotation |-> self.rotation]
      [] self.kind = "ModifierNoise" ->
             [kind |-> "ModifierNoise", source |-> to_box(self.source),
              func |-> self.func]

ModifierKinds ==
    {"ClampedNoise", "ScaledBiasedNoise", "TranslatedNoise", "RotatedNoise",
     "ModifierNoise"}

FractalKinds == {"PinkNoise", "BillowNoise"}

GeneratorKinds ==
    FractalKinds \cup {"ConstNoise", "CheckerboardNoise", "CylinderNoise",
                       "FunctionNoise"}

IsModifier(m) == m.kind \in ModifierKinds

\* The modules with an `impl Modifiable`, which have the chaining methods:
\* all but FunctionNoise.
IsModifiable(m) == m.kind # "FunctionNoise"

\* The nodes an evaluation of m visits, in order: a modifier's generate_2d
\* calls generate_2d of its source once, a generator's calls no module.
RECURSIVE Visited(_)
Visited(m) == IF IsModifier(m) THEN <<m>> \o Visited(m.source) ELSE <<m>>

\* The number of modifiers wrapped around the generator of a module.
RECURSIVE Depth(_)
Depth(m) == IF IsModifier(m) THEN 1 + Depth(m.source) ELSE 0

(***************************************************************************)
(* The caller's program: a variable `source` holding a generator and a     *)
(* variable `noise` holding a modifier built from `source` or from         *)
(* `noise` itself by chaining.  The caller evaluates either at a           *)
(* coordinate and assigns public fields between evaluations; the program   *)
(* is sequential, one statement at a time.  A variable `copy` holds a      *)
(* clone of `noise`.  `log` is the calls the last evaluation made to the   *)
(* caller's functions; `failed` tells that an evaluation of `source` has   *)
(* returned an error since `source` was declared.                          *)
(***************************************************************************)
MaxDepth == 2

Slots == {"source", "noise", "copy"}

NoModule == [kind |-> "none"]

NoCall == [op |-> "none"]

NoResult == [ok |-> FALSE, val |-> 0, err |-> "not evaluated"]

Seeds == {0}

\* The octave counts the caller assigns: to a PinkNoise around the lower
\* limit, to a BillowNoise around the upper limit.
OctaveCounts(kind) == IF kind = "PinkNoise" THEN {1, 2} ELSE {30, 31}

ConstValues == {5 * One, NaN}

Frequencies == {One, 5 * One}

ClampBounds == {<<0, One>>, <<One, 0>>}

\* The upper bounds the caller assigns to a ClampedNoise it holds.
AssignedMaxima == {Half}

ScaleBiases == {<<One, 0>>, <<Half, Half>>}

Translations == {Vector2(One, 0), Vector2(0 - Half, Half)}

Rotations == {1571}

Coords ==
    {Vector2(0, 0), Vector2(One, 0), Vector2(0 - Half, 0),
     Vector2(0 - 5 * One, 0), Vector2(50, 50)}

Init ==
    /\ mods = [s \in Slots |-> NoModule]
    /\ call = NoCall
    /\ result = NoResult
    /\ log = <<>>
    /\ failed = FALSE

\* let source = <generator>;
Declare(m) ==
    /\ call = NoCall
    /\ mods["noise"] = NoModule
    /\ mods' = [mods EXCEPT !["source"] = m]
    /\ call' = NoCall
    /\ result' = NoResult
    /\ log' = <<>>
    /\ failed' = FALSE

NewPinkNoise == \E seed \in Seeds : Declare(PinkNoise_new(seed))

NewBillowNoise == \E seed \in Seeds : Declare(BillowNoise_new(seed))

NewConstNoise == \E value \in ConstValues : Declare(ConstNoise_new(value))

NewCheckerboardNoise == Declare(CheckerboardNoise_new)

NewCylinderNoise == \E f \in Frequencies : Declare(CylinderNoise_new(f))

NewFunctionNoise == \E func \in FunctionNoiseFunctions : Declare(FunctionNoise_new(func))

\* An assignment that also reaches the generator inside `noise`, as it
\* would if the modifier shared its source with the caller.
AssignOctaves_Shared ==
    \E n \in OctaveCounts(mods["source"].kind) :
        /\ call = NoCall
        /\ mods["source"].kind \in FractalKinds
        /\ mods' = IF IsModifier(mods["noise"])
                      /\ mods["noise"].source.kind \in FractalKinds
                   THEN [mods EXCEPT !["source"].octaves = n,
                                     !["noise"].source.octaves = n]
                   ELSE [mods EXCEPT !["source"].octaves = n]
        /\ call' = NoCall
        /\ result' = NoResult
        /\ UNCHANGED <<log, failed>>

\* source.octaves = n;
AssignOctaves ==
    \E n \in OctaveCounts(mods["source"].kind) :
        /\ call = NoCall
        /\ mods["source"].kind \in FractalKinds
        /\ mods' = [mods EXCEPT !["source"].octaves = n]
        /\ call' = NoCall
        /\ result' = NoResult
        /\ UNCHANGED <<log, failed>>

\* source.value = value;
AssignValue ==
    \E value \in ConstValues :
        /\ call = NoCall
        /\ mods["source"].kind = "ConstNoise"
        /\ mods' = [mods EXCEPT !["source"].value = value]
        /\ call' = NoCall
        /\ result' = NoResult
        /\ UNCHANGED <<log, failed>>

\* A chaining call on a variable that holds no module yet.
Wrap_Unbuilt(src, m) ==
    /\ call = NoCall
    /\ Depth(mods[src]) < MaxDepth
    /\ mods["copy"] = NoModule
    /\ mods' = [mods EXCEPT !["noise"] = m]
    /\ call' = NoCall
    /\ result' = NoResult
    /\ UNCHANGED <<log, failed>>

\* let noise = <modifier built from the module in slot src>;
Wrap(src, m) ==
    /\ call = NoCall
    /\ mods[src] # NoModule
    /\ Depth(mods[src]) < MaxDepth
    /\ mods["copy"] = NoModule
    /\ mods' = [mods EXCEPT !["noise"] = m]
    /\ call' = NoCall
    /\ result' = NoResult
    /\ UNCHANGED <<log, failed>>

Clamp ==
    \E src \in Slots, b \in ClampBounds :
        IsModifiable(mods[src]) /\ Wrap(src, clamp(mods[src], b[1], b[2]))

ScaleBias ==
    \E src \in Slots, sb \in ScaleBiases :
        IsModifiable(mods[src]) /\ Wrap(src, scalebias(mods[src], sb[1], sb[2]))

Translate ==
    \E src \in Slots, t \in Translations :
        IsModifiable(mods[src]) /\ Wrap(src, translate(mods[src], t))

Rotate ==
    \E src \in Slots, r \in Rotations :
        IsModifiable(mods[src]) /\ Wrap(src, rotate(mods[src], r))

NewClampedNoise == \E src \in Slots : Wrap(src, ClampedNoise_new(mods[src]))

\* let noise = ClampedNoise { source: src.to_box(), min: .., max: .. };
LiteralClampedNoise ==
    \E src \in Slots, b \in ClampBounds :
        Wrap(src, ClampedNoise(to_box(mods[src]), b[1], b[2]))

NewScaledBiasedNoise == \E src \in Slots : Wrap(src, ScaledBiasedNoise_new(mods[src]))

NewModifierNoise ==
    \E src \in Slots, func \in ModifierNoiseFunctions :
        Wrap(src, ModifierNoise_new(mods[src], func))

\* let copy = noise.clone();
Clone ==
    /\ call = NoCall
    /\ IsModifier(mods["noise"])
    /\ mods["copy"] = NoModule
    /\ mods' = [mods EXCEPT !["copy"] = clone(mods["noise"])]
    /\ call' = NoCall
    /\ result' = NoResult
    /\ UNCHANGED <<log, failed>>

\* noise.max = max; or copy.max = max;
AssignMax ==
    \E slot \in {"noise", "copy"}, max \in AssignedMaxima :
        /\ call = NoCall
        /\ mods[slot].kind = "ClampedNoise"
        /\ mods' = [mods EXCEPT ![slot].max = max]
        /\ call' = NoCall
        /\ result' = NoResult
        /\ UNCHANGED <<log, failed>>

\* noise.source = source.to_box();
AssignSource ==
    /\ call = NoCall
    /\ IsModifier(mods["noise"])
    /\ mods' = [mods EXCEPT !["noise"].source = to_box(mods["source"])]
    /\ call' = NoCall
    /\ result' = NoResult
    /\ UNCHANGED <<log, failed>>

\* An evaluation that repairs the generator it fails on: it puts the
\* default octave count back.
Generate_Repairing ==
    \E slot \in Slots, v \in Coords :
        /\ call = NoCall
        /\ mods[slot] # NoModule
        /\ call' = [op |-> "generate_2d", slot |-> slot, v |-> v]
        /\ result' = generate_2d(mods[slot], v)
        /\ log' = FunctionCalls(mods[slot], v)
        /\ failed' = (failed \/ (slot = "source" /\ ~result'.ok))
        /\ mods' = IF mods[slot].kind \in FractalKinds /\ ~result'.ok
                   THEN [mods EXCEPT ![slot].octaves = DefaultOctaves]
                   ELSE mods

\* let result = mods[slot].generate_2d(v);
Generate ==
    \E slot \in Slots, v \in Coords :
        /\ call = NoCall
        /\ mods[slot] # NoModule
        /\ call' = [op |-> "generate_2d", slot |-> slot, v |-> v]
        /\ result' = generate_2d(mods[slot], v)
        /\ log' = FunctionCalls(mods[slot], v)
        /\ failed' = (failed \/ (slot = "source" /\ ~result'.ok))
        /\ UNCHANGED mods

\* The caller has used the result, which goes out of scope.
Discard ==
    /\ call # NoCall
    /\ call' = NoCall
    /\ result' = NoResult
    /\ log' = <<>>
    /\ UNCHANGED <<mods, failed>>

Next ==
    \/ NewPinkNoise
    \/ NewBillowNoise
    \/ NewConstNoise
    \/ NewCheckerboardNoise
    \/ NewCylinderNoise
    \/ NewFunctionNoise
    \/ AssignOctaves
    \/ AssignValue
    \/ Clamp
    \/ ScaleBias
    \/ Translate
    \/ Rotate
    \/ NewClampedNoise
    \/ LiteralClampedNoise
    \/ NewScaledBiasedNoise
    \/ NewModifierNoise
    \/ Generate
    \/ Discard

Spec == Init /\ [][Next]_vars

\* The programs that assign fields after wrapping and cloning: the source is
\* a PinkNoise or a ConstNoise, `noise` is built by chaining, `copy` is its
\* clone, and the caller assigns fields of `source` and of `noise`.
NextOwnership ==
    \/ NewPinkNoise
    \/ NewConstNoise
    \/ AssignOctaves
    \/ AssignValue
    \/ Clamp
    \/ ScaleBias
    \/ Translate
    \/ Rotate
    \/ NewModifierNoise
    \/ Clone
    \/ AssignMax
    \/ AssignSource
    \/ Generate
    \/ Discard

SpecOwnership == Init /\ [][NextOwnership]_vars

(***************************************************************************)
(* Properties                                                              *)
(***************************************************************************)
\* The last statement was an evaluation, of the module Target at call.v.
Evaluated == call.op = "generate_2d"

Target == mods[call.slot]

\* The coordinate a modifier hands to its source.
ForwardedCoord(m, v) ==
    CASE m.kind = "TranslatedNoise" -> VAdd(v, m.translation)
      [] m.kind = "RotatedNoise"    -> rotate_vector(m.rotation, v)
      [] OTHER                      -> v

\* C1: a fractal generator (PinkNoise, BillowNoise) evaluates to an error
\* when its octave count is 1 or less or 31 or more, and to Ok when the count
\* is in 2..30, at every coordinate.
C1_OctaveBounds ==
    (Evaluated /\ Target.kind \in FractalKinds) =>
        /\ result.ok <=> (Target.octaves >= 2 /\ Target.octaves <= 30)
        /\ ~result.ok => result.err = "InvalidOctaveCount"
        /\ mods["noise"] = NoModule =>
               \A n \in 0..32 :
                   generate_2d([Target EXCEPT !.octaves = n], call.v).ok
                       <=> (n >= 2 /\ n <= 30)

C1_Witness ==
    /\ Evaluated
    /\ Target.kind = "BillowNoise"
    /\ Target.octaves = 30
    /\ result.ok

\* C2: when the source of a modifier fails at the coordinate the modifier
\* hands it, the modifier returns exactly the source's error (never Ok, never
\* another error); the modifiers of a chain are each such a modifier.
C2_ErrorPropagation ==
    (Evaluated /\ IsModifier(Target)) =>
        LET rc == generate_2d(Target.source, ForwardedCoord(Target, call.v))
        IN  ~rc.ok => result = rc

C2_Witness ==
    /\ Evaluated
    /\ Depth(Target) = 2
    /\ ~result.ok
    /\ result.err = "InvalidOctaveCount"

\* The result of the source of the evaluated ClampedNoise.
ClampedSourceResult == generate_2d(Target.source, call.v)

\* C3 as stated: whenever the source of a ClampedNoise evaluates to Ok(v),
\* the ClampedNoise evaluates to Ok(r) with min <= r <= max, for every v and
\* every pair of min and max.
C3_ClampRange_AnyBounds ==
    (Evaluated /\ Target.kind = "ClampedNoise" /\ ClampedSourceResult.ok) =>
        /\ result.ok
        /\ Fle(Target.min, result.val)
        /\ Fle(result.val, Target.max)

\* C3, amended: whenever the source of a ClampedNoise evaluates to Ok(v)
\* with v not NaN, and min <= max, the ClampedNoise evaluates to Ok(r) with
\* min <= r <= max; so scalebias(0.5, 0.5).clamp(0.0, 1.0) yields only values
\* in [0.0, 1.0] wherever its source yields a number.
C3_ClampRange ==
    (/\ Evaluated
     /\ Target.kind = "ClampedNoise"
     /\ ClampedSourceResult.ok
     /\ ~IsNaN(ClampedSourceResult.val)
     /\ Fle(Target.min, Target.max)) =>
        /\ result.ok
        /\ Fle(Target.min, result.val)
        /\ Fle(result.val, Target.max)

C3_Witness ==
    /\ Evaluated
    /\ Target.kind = "ClampedNoise"
    /\ Target.min = 0
    /\ Target.max = One
    /\ Target.source.kind = "ScaledBiasedNoise"
    /\ Target.source.scale = Half
    /\ Target.source.bias = Half
    /\ ClampedSourceResult.ok
    /\ Fgt(ClampedSourceResult.val, One)
    /\ result = Ok(One)

\* C4: source.scalebias(1.0, 0.0) and ScaledBiasedNoise::new(&source) return
\* at every coordinate what the source returns, value or error.
C4_ScaleBiasIdentity ==
    (Evaluated /\ Target.kind = "ScaledBiasedNoise") =>
        /\ ScaledBiasedNoise_new(Target.source)
               = scalebias(Target.source, One, 0)
        /\ (Target.scale = One /\ Target.bias = 0) =>
               result = generate_2d(Target.source, call.v)

C4_Witness ==
    /\ Evaluated
    /\ Target.kind = "ScaledBiasedNoise"
    /\ Target.scale = One
    /\ Target.bias = 0
    /\ result.ok
    /\ result.val # 0

ClampedTwice ==
    /\ Evaluated
    /\ Target.kind = "ClampedNoise"
    /\ Target.source.kind = "ClampedNoise"
    /\ Target.source.min = Target.min
    /\ Target.source.max = Target.max

\* C6 as stated: source.clamp(a, b).clamp(a, b) returns what
\* source.clamp(a, b) returns, for every a and b.
C6_ClampIdempotent_AnyBounds ==
    ClampedTwice => result = generate_2d(Target.source, call.v)

\* C6, amended: source.clamp(a, b).clamp(a, b) returns what
\* source.clamp(a, b) returns, for every a and b with a <= b.
C6_ClampIdempotent ==
    (ClampedTwice /\ Fle(Target.min, Target.max)) =>
        result = generate_2d(Target.source, call.v)

C6_Witness ==
    /\ ClampedTwice
    /\ Fle(Target.min, Target.max)
    /\ generate_2d(Target.source.source, call.v).ok
    /\ Fgt(generate_2d(Target.source.source, call.v).val, Target.max)
    /\ result = Ok(Target.max)

\* The parity XOR of floor(x) and floor(y).
FloorParity(v) == ((v.x \div One) + (v.y \div One)) % 2

\* C8: CheckerboardNoise returns +1 or -1 by the parity XOR of floor(x) and
\* floor(y), at every coordinate: coordinates of the same parity as (0,0)
\* return what (0,0) returns, the others the opposite.
C8_CheckerboardFloorParity ==
    (Evaluated /\ Target.kind = "CheckerboardNoise") =>
        LET origin == generate_2d(Target, Vector2(0, 0))
        IN  /\ result.ok
            /\ result.val \in {One, 0 - One}
            /\ (result = origin) <=> (FloorParity(call.v) = 0)

\* The fractional part of the Euclidean length of f*p.
RingFraction(f, p) ==
    LET x == MulDiv(p.x, f)
        y == MulDiv(p.y, f)
    IN  Fsqrt(x * x + y * y) % One

\* C9: CylinderNoise with frequency f returns 1 - 4*min(fr, 1-fr) at p, fr
\* being the fractional part of the length of f*p; it returns exactly 1.0
\* when that length is whole, as CylinderNoise(1.0) at (1,0) and
\* CylinderNoise(5.0) at (-5,0) do.
C9_CylinderTriangleWave ==
    (Evaluated /\ Target.kind = "CylinderNoise") =>
        LET fr == RingFraction(Target.frequency, call.v)
        IN  /\ result = Ok(One - 4 * (IF fr < One - fr THEN fr ELSE One - fr))
            /\ fr = 0 => result = Ok(One)
            /\ generate_2d(CylinderNoise_new(One), Vector2(One, 0)) = Ok(One)
            /\ generate_2d(CylinderNoise_new(5 * One), Vector2(0 - 5 * One, 0))
                   = Ok(One)

C9_Witness ==
    /\ Evaluated
    /\ Target = CylinderNoise_new(5 * One)
    /\ call.v = Vector2(0 - 5 * One, 0)
    /\ result = Ok(One)

\* C10: ConstNoise::new(c) returns Ok(c) at every coordinate, never an error.
C10_ConstNoise ==
    (Evaluated /\ Target.kind = "ConstNoise") =>
        /\ result = Ok(Target.value)
        /\ \A p \in Coords : generate_2d(Target, p) = result

C10_Witness ==
    /\ Evaluated
    /\ Target = ConstNoise_new(5 * One)
    /\ call.v # Vector2(0, 0)
    /\ result = Ok(5 * One)

\* C11: the three ways of building a clamp agree.  For every source and
\* bounds, the struct literal over source.to_box() is the module that
\* source.clamp(min, max) returns, and ClampedNoise::new(&source) is the
\* module source.clamp(-1.0, 1.0) returns; an evaluated ClampedNoise returns
\* at its coordinate what both constructions over its source return.
C11_ClampConstructions ==
    /\ \A src \in Slots :
           mods[src] # NoModule =>
               /\ \A b \in ClampBounds :
                      ClampedNoise(to_box(mods[src]), b[1], b[2])
                          = clamp(mods[src], b[1], b[2])
               /\ ClampedNoise_new(mods[src]) = clamp(mods[src], 0 - One, One)
    /\ (Evaluated /\ Target.kind = "ClampedNoise") =>
           LET literal == ClampedNoise(to_box(Target.source),
                                       Target.min, Target.max)
               chained == clamp(Target.source, Target.min, Target.max)
           IN  /\ literal = chained
               /\ result = generate_2d(chained, call.v)
               /\ (Target.min = 0 - One /\ Target.max = One) =>
                      ClampedNoise_new(Target.source) = chained

C11_Witness ==
    /\ Evaluated
    /\ Target = ClampedNoise(to_box(ConstNoise_new(5 * One)), 0, One)
    /\ Target = clamp(mods["source"], 0, One)
    /\ result = Ok(One)

\* C12: a FunctionNoise evaluated with generate_2d at (x, y) returns what
\* its function returns for (x, y), Ok or error, calls the function exactly
\* once, with (x, y), and never returns an error of its own about the
\* evaluation mode.
C12_FunctionNoiseForwards ==
    (Evaluated /\ Target.kind = "FunctionNoise") =>
        /\ result = CallFunctionNoiseFunction(Target.func, call.v.x, call.v.y)
        /\ log = <<[func |-> Target.func, args |-> <<call.v.x, call.v.y>>]>>
        /\ result.err # "unsupported evaluation mode"

C12_Witness ==
    /\ Evaluated
    /\ Target = FunctionNoise_new("positive_x")
    /\ ~result.ok
    /\ result.err = "x must be positive"
    /\ Len(log) = 1

\* A generator of the kind of m as its constructor returns it, with the
\* octave count of m assigned and never evaluated.
NeverFailed(m, seed) ==
    [(IF m.kind = "PinkNoise" THEN PinkNoise_new(seed) ELSE BillowNoise_new(seed))
        EXCEPT !.octaves = m.octaves]

\* C13: over any sequence of octave assignments and evaluations of one
\* fractal generator, an evaluation fails exactly when the octave count at
\* that moment is outside 2..30, whatever earlier evaluations returned; an
\* evaluation with a count in 2..30 returns the value a never-failed
\* generator with the same parameters returns, also after a failed one.
C13_OctaveCheckPerEvaluation ==
    (Evaluated /\ call.slot = "source" /\ Target.kind \in FractalKinds) =>
        /\ ~result.ok <=> (Target.octaves < 2 \/ Target.octaves > 30)
        /\ \E seed \in Seeds :
               result = generate_2d(NeverFailed(Target, seed), call.v)
        /\ (failed /\ Target.octaves >= 2 /\ Target.octaves <= 30) => result.ok

C13_Witness ==
    /\ Evaluated
    /\ call.slot = "source"
    /\ Target.kind = "PinkNoise"
    /\ failed
    /\ Target.octaves = 2
    /\ result.ok

\* C14: an evaluation, whether it returns Ok or an error, leaves every
\* parameter of every node of every module unchanged: the modules before
\* and after a generate_2d call are the same, fields and sources alike.
C14_EvaluationReadOnly ==
    [][(call.op = "none" /\ call'.op = "generate_2d") => mods' = mods]_vars

C14_Witness ==
    /\ Evaluated
    /\ call.slot = "noise"
    /\ Target.kind = "ClampedNoise"
    /\ Target.source.kind = "BillowNoise"
    /\ Target.source.octaves = 31
    /\ ~result.ok

\* The module m is a chain: the nodes an evaluation visits are finitely
\* many and all different, each but the last a modifier whose one source is
\* the next node, the last a generator.
IsChain(m) ==
    LET nodes == Visited(m)
        n     == Len(nodes)
    IN  /\ n = Depth(m) + 1
        /\ nodes[n].kind \in GeneratorKinds
        /\ \A i \in 1..(n - 1) :
               /\ IsModifier(nodes[i])
               /\ nodes[i].source = nodes[i + 1]
        /\ \A i, j \in 1..n : i # j => nodes[i] # nodes[j]

\* A step gives a modifier only a source that was a module before the step.
ChildBuiltBefore ==
    \A s \in Slots :
        (mods'[s] # mods[s] /\ IsModifier(mods'[s])) =>
            \E t \in Slots :
                /\ mods[t] # NoModule
                /\ \/ mods'[s].source = mods[t]
                   \/ IsModifier(mods[t]) /\ mods'[s].source = mods[t].source

\* C15: after any sequence of constructor and chaining calls every module
\* is a finite acyclic chain whose modifiers each have one source, built
\* before the modifier; every evaluation returns, having visited each node
\* of the chain once, from the outermost modifier to the generator.
C15_FiniteChain ==
    /\ [](\A s \in Slots : mods[s] # NoModule => IsChain(mods[s]))
    /\ [](Evaluated => result # NoResult /\ Len(log) <= Len(Visited(Target)))
    /\ [][ChildBuiltBefore]_vars

C15_Witness ==
    /\ Evaluated
    /\ Target.kind = "RotatedNoise"
    /\ Target.source.kind = "ModifierNoise"
    /\ Len(Visited(Target)) = 3
    /\ result.ok

\* C16: a ModifierNoise evaluated at (x, y) whose source returns Ok(out)
\* returns func(x, y, out), with the coordinate it was given and not one a
\* modifier below it made, and func's error if func fails; when its source
\* returns an error it returns that error and does not call func.
C16_ModifierNoise ==
    (Evaluated /\ Target.kind = "ModifierNoise") =>
        LET rc    == generate_2d(Target.source, call.v)
            inner == FunctionCalls(Target.source, call.v)
            own   == [func |-> Target.func,
                      args |-> <<call.v.x, call.v.y, rc.val>>]
        IN  /\ rc.ok =>
                   /\ result = CallModifierNoiseFunction(Target.func, call.v.x,
                                                         call.v.y, rc.val)
                   /\ log = inner \o <<own>>
            /\ ~rc.ok =>
                   /\ result = rc
                   /\ log = inner

C16_Witness ==
    /\ Evaluated
    /\ Target.kind = "ModifierNoise"
    /\ Target.source.kind = "TranslatedNoise"
    /\ call.v.x # 0
    /\ generate_2d(Target.source, call.v).ok
    /\ ~result.ok
    /\ result.err = "negative output"
    /\ Len(log) = 1

\* The module in slot t is the same after the step, in every field of
\* every node; its results, which generate_2d computes from those fields
\* and the coordinate, are then the same.
SameResults(t) == mods'[t] = mods[t]

\* C17: a modifier owns a copy of its source, taken when it was built, and
\* a clone owns a copy of the modifier.  A statement that assigns a field
\* of the module in one variable, or rebuilds it, changes no result of the
\* modules in the other variables: assigning source.octaves or source.value
\* changes nothing in `noise` and `copy`, assigning a field or the source of
\* `noise` changes nothing in `source` and `copy`, and likewise for `copy`;
\* a clone, when made, returns what the modifier returns.
C17_IndependentCopies ==
    [][/\ \A s \in Slots :
              (mods'[s] # mods[s]) => \A t \in Slots \ {s} : SameResults(t)
       /\ (mods["copy"] = NoModule /\ mods'["copy"] # NoModule) =>
              \A v \in Coords :
                  generate_2d(mods'["copy"], v) = generate_2d(mods["noise"], v)
      ]_vars

C17_Witness ==
    /\ Evaluated
    /\ call.slot = "noise"
    /\ Target.kind = "ClampedNoise"
    /\ Target.source.kind = "PinkNoise"
    /\ Target.source.octaves = 2
    /\ mods["source"].octaves = 1
    /\ mods["copy"].kind = "ClampedNoise"
    /\ mods["copy"].max # Target.max
    /\ result.ok

====
